---- MODULE Spec2Model ----
(***************************************************************************)
(* Model of the Coolify deployment status action (src/src/index.ts):       *)
(* the Locator getDeploymentForCommit, the comment publisher               *)
(* findOrCreateComment, the poll loop pollUntilComplete and run().         *)
(*                                                                         *)
(* Optional values (null / undefined) are sequences of length at most 1,   *)
(* optional strings are "" when absent (both are falsy in the source).     *)
(***************************************************************************)
EXTENDS Integers, Sequences, FiniteSets, TLC

\* ------------------------------------------------------------------ bounds
MaxListLen == 3       \* deployments in one response (Locator model)
MaxTimeout == 3       \* largest configured timeout, in tick units
MaxInterval == 2      \* largest configured poll interval, in tick units
MaxLatency == 1       \* largest time one poll tick's remote calls take
MaxFaultTimeout == 1  \* largest timeout explored with failing GitHub calls
MaxTicks == 5         \* most poll ticks of one session that are followed
MaxComments == 2      \* comments already on the PR (publisher model)
MaxPublishes == 3     \* publishes performed in the publisher model

\* ------------------------------------------------------------ value sets
Null == <<>>
Some(x) == <<x>>

Statuses == {"queued", "in_progress", "finished", "failed", "weird_status"}
Commits == {"abc123", "ABC123", "def456"}
Uuids == {"d1", "d2", "d3"}
\* created_at strings; the last one is the instant of the first in another
\* zone notation
Timestamps == {"2024-01-01T10:00:00Z", "2024-01-01T11:00:00Z",
               "2024-01-01T12:00:00Z", "2024-01-01T11:00:00+01:00"}
Fqdns == {"", "https://app.example.com"}

\* new Date(s).getTime(), in hours since 2024-01-01T00:00:00Z
DateGetTime(s) ==
  CASE s = "2024-01-01T10:00:00Z" -> 10
    [] s = "2024-01-01T11:00:00Z" -> 11
    [] s = "2024-01-01T12:00:00Z" -> 12
    [] s = "2024-01-01T11:00:00+01:00" -> 10
    [] OTHER -> 0

\* the lower-cased form of a commit identifier (used only to state that the
\* Locator's match is case-sensitive)
ToLowerCase(c) == IF c = "ABC123" THEN "abc123" ELSE c

CoolifyDeployment ==
  [deployment_uuid : Uuids, commit : Commits, status : Statuses,
   fqdn : Fqdns, created_at : Timestamps, finished_at : {""} \cup Timestamps]

\* ------------------------------------------------------------- the Locator
\* d => d.commit === commitSha
CommitMatchesFold(d, commitSha) == ToLowerCase(d.commit) = ToLowerCase(commitSha)
CommitMatches(d, commitSha) == d.commit = commitSha

\* deployments.filter(d => d.commit === commitSha)
RECURSIVE FilterByCommit(_, _)
FilterByCommit(ds, commitSha) ==
  IF ds = <<>> THEN <<>>
  ELSE LET rest == FilterByCommit(Tail(ds), commitSha)
       IN IF CommitMatches(Head(ds), commitSha) THEN <<Head(ds)>> \o rest
          ELSE rest

\* the sort comparator (a, b) => time(b) - time(a)
CompareOldestFirst(a, b) == DateGetTime(a.created_at) - DateGetTime(b.created_at)
CompareCreatedDesc(a, b) == DateGetTime(b.created_at) - DateGetTime(a.created_at)

\* Array.prototype.sort with that comparator: a stable sort, built by
\* inserting each element after the elements that do not sort after it
RECURSIVE SortDeployments(_)
SortDeployments(ds) ==
  IF Len(ds) <= 1 THEN ds
  ELSE LET sorted == SortDeployments(SubSeq(ds, 1, Len(ds) - 1))
           x == ds[Len(ds)]
           k == Cardinality({i \in 1..Len(sorted) :
                               CompareCreatedDesc(sorted[i], x) <= 0})
       IN SubSeq(sorted, 1, k) \o <<x>> \o SubSeq(sorted, k + 1, Len(sorted))

\* the body of an HTTP response of the deployment platform:
\* [ok, status, statusText, body, deployments] with deployments Null when the
\* JSON has no deployments field
\* getDeploymentForCommit: [threw |-> TRUE, message] on a non-ok response,
\* else [threw |-> FALSE, value |-> Null or Some(deployment)]
GetDeploymentForCommit(response, commitSha) ==
  IF ~response.ok
  THEN [threw |-> TRUE, message |-> <<"Coolify API error:", response.status, response.statusText>>,
        value |-> Null]
  ELSE LET deployments == IF response.deployments = Null THEN <<>>
                          ELSE response.deployments[1]
           matching == SortDeployments(FilterByCommit(deployments, commitSha))
       IN [threw |-> FALSE, message |-> <<>>,
           value |-> IF Len(matching) > 0 THEN Some(matching[1]) ELSE Null]

\* ------------------------------------------------------ comment formatting
\* emoji of the source are written by their short names (":rocket:" etc.)
BaseUrl == "https://coolify.example.com"
MarkerLine == <<":rocket: **Coolify deployment**">>
BlankLine == <<>>

\* the default locale and time zone of the host that runs the action
VARIABLE runner

\* a GitHub-hosted runner, and a self-hosted one set up for Germany
DefaultRunner == [locale |-> "en-US", timeZone |-> "UTC"]
BerlinRunner == [locale |-> "de-DE", timeZone |-> "Europe/Berlin"]
Runners == {DefaultRunner, BerlinRunner}

\* Date.prototype.toLocaleString of the parsed timestamp: without arguments
\* it formats in the host's default locale and time zone
DateToLocaleString(s) ==
  IF runner = DefaultRunner
  THEN CASE DateGetTime(s) = 10 -> "1/1/2024, 10:00:00 AM"
         [] DateGetTime(s) = 11 -> "1/1/2024, 11:00:00 AM"
         [] DateGetTime(s) = 12 -> "1/1/2024, 12:00:00 PM"
         [] OTHER -> "Invalid Date"
  ELSE CASE DateGetTime(s) = 10 -> "1.1.2024, 11:00:00"
         [] DateGetTime(s) = 11 -> "1.1.2024, 12:00:00"
         [] DateGetTime(s) = 12 -> "1.1.2024, 13:00:00"
         [] OTHER -> "Invalid Date"

StatusEmojiNoDefault(status) ==
  IF status = "finished" THEN ":white_check_mark:"
  ELSE IF status = "failed" THEN ":x:" ELSE ":arrows_counterclockwise:"
StatusEmoji(status) ==
  IF status = "finished" THEN ":white_check_mark:"
  ELSE IF status = "failed" THEN ":x:"
  ELSE IF status = "in_progress" THEN ":arrows_counterclockwise:" ELSE ":hourglass:"

LogLink(deployment) == <<BaseUrl, "/deployments/", deployment.deployment_uuid>>

\* the deploymentInfo object of run(): the mapping stored for the webhook
\* receiver
DeploymentInfo(deployment, githubDeploymentId, commitSha, isProduction, issueNumber) ==
  [deployment_uuid |-> deployment.deployment_uuid,
   github_deployment_id |-> githubDeploymentId,
   commit_sha |-> commitSha,
   is_production |-> isProduction,
   issue_number |-> issueNumber]

\* formatComment, line 76: the URL is shown prominently on success
ShowsProminentUrlWheneverPresent(deployment) == deployment.fqdn # ""
ShowsProminentUrl(deployment) ==
  deployment.status = "finished" /\ deployment.fqdn # ""

\* formatComment, line 88: the retry block is added on failure
ShowsRetryUnlessFinished(deployment) == deployment.status # "finished"
ShowsRetry(deployment) == deployment.status = "failed"

\* formatComment: the body as its sequence of lines, each line a sequence of
\* text pieces; deploymentInfo is Null or Some(info)
FormatComment(deployment, isProduction, deploymentInfo) ==
  LET head == <<MarkerLine, BlankLine,
                <<StatusEmoji(deployment.status), " **Status:** ", deployment.status>>>>
      url == IF ShowsProminentUrl(deployment)
             THEN <<BlankLine,
                    <<IF isProduction THEN ":globe: **Production URL**"
                      ELSE ":link: **Preview URL**", ": ", deployment.fqdn>>>>
             ELSE IF deployment.fqdn # ""
             THEN << <<"**URL:** ", deployment.fqdn>> >>
             ELSE <<>>
      logs == <<BlankLine, <<":clipboard: [View Build Logs]">> \o LogLink(deployment)>>
      retry == IF ShowsRetry(deployment)
               THEN <<BlankLine, <<"---">>, BlankLine,
                      <<"### :arrows_counterclockwise: Retry Deployment">>, BlankLine,
                      <<"[:arrows_counterclockwise: Retry Deployment]">> \o LogLink(deployment)
                         \o <<" | [:clipboard: View Logs]">> \o LogLink(deployment),
                      BlankLine,
                      <<"_Click \"Retry Deployment\" to redeploy this commit in Coolify._">>>>
               ELSE <<>>
      stamp == IF deployment.finished_at # ""
               THEN <<BlankLine, <<"<sub>Last updated: ",
                        DateToLocaleString(deployment.finished_at), "</sub>">>>>
               ELSE <<BlankLine, <<"<sub>Last updated: ",
                        DateToLocaleString(deployment.created_at), "</sub>">>>>
      meta == IF deploymentInfo # Null
              THEN <<BlankLine,
                     <<"<!-- coolify-webhook:",
                       deploymentInfo[1].deployment_uuid,
                       ToString(deploymentInfo[1].github_deployment_id),
                       deploymentInfo[1].commit_sha,
                       ToString(deploymentInfo[1].is_production),
                       ToString(deploymentInfo[1].issue_number),
                       " -->">>>>
              ELSE <<>>
  IN head \o url \o logs \o retry \o stamp \o meta

\* ------------------------------------------------------ comment publisher
\* the account a token posts as: the Actions token posts as a Bot, a
\* personal access token passed as github_token posts as a User
ActionsBot == [login |-> "github-actions[bot]", type |-> "Bot"]
TokenOwner == [login |-> "deployer", type |-> "User"]
OtherBot == [login |-> "dependabot[bot]", type |-> "Bot"]
Human == [login |-> "alice", type |-> "User"]

\* the run contexts (github.context): issue number 0 when there is none
PrContext == [issue |-> 7, eventName |-> "pull_request", ref |-> "refs/pull/7/merge"]
PushMainContext == [issue |-> 0, eventName |-> "push", ref |-> "refs/heads/main"]
PushBranchContext == [issue |-> 0, eventName |-> "push", ref |-> "refs/heads/feature"]
DispatchContext == [issue |-> 0, eventName |-> "workflow_dispatch", ref |-> "refs/heads/main"]
Contexts == {PrContext, PushMainContext, PushBranchContext, DispatchContext}

\* c => c.user?.type === 'Bot' && c.body?.startsWith(':rocket: **Coolify deployment**')
IsExistingAnyAuthor(c) == Len(c.body) >= 1 /\ c.body[1] = MarkerLine
IsExisting(c) == c.user.type = "Bot" /\ Len(c.body) >= 1 /\ c.body[1] = MarkerLine

\* comments.find(...): the index of the first such comment, 0 when none
FindExistingNever(cs) == 0
FindExisting(cs) ==
  IF \E i \in 1..Len(cs) : IsExisting(cs[i])
  THEN CHOOSE i \in 1..Len(cs) :
         IsExisting(cs[i]) /\ \A j \in 1..(i - 1) : ~IsExisting(cs[j])
  ELSE 0

NextCommentId(cs) ==
  IF cs = <<>> THEN 1
  ELSE 1 + (CHOOSE m \in {cs[i].id : i \in 1..Len(cs)} :
              \A i \in 1..Len(cs) : cs[i].id <= m)

\* findOrCreateComment when every API call succeeds: the new issue comments,
\* the new commit comments, and whether the warning was logged
FindOrCreateCommentOnePerCommit(ctx, user, cs, ccs, body) ==
  IF ctx.issue # 0
  THEN LET existing == FindExisting(cs)
       IN IF existing # 0
          THEN [comments |-> [cs EXCEPT ![existing].body = body],
                commitComments |-> ccs, warned |-> FALSE]
          ELSE [comments |-> Append(cs, [id |-> NextCommentId(cs),
                                          user |-> user, body |-> body]),
                commitComments |-> ccs, warned |-> FALSE]
  ELSE IF ctx.eventName = "push"
  THEN [comments |-> cs, commitComments |-> <<body>>, warned |-> FALSE]
  ELSE [comments |-> cs, commitComments |-> ccs, warned |-> TRUE]
FindOrCreateComment(ctx, user, cs, ccs, body) ==
  IF ctx.issue # 0
  THEN LET existing == FindExisting(cs)
       IN IF existing # 0
          THEN [comments |-> [cs EXCEPT ![existing].body = body],
                commitComments |-> ccs, warned |-> FALSE]
          ELSE [comments |-> Append(cs, [id |-> NextCommentId(cs),
                                          user |-> user, body |-> body]),
                commitComments |-> ccs, warned |-> FALSE]
  ELSE IF ctx.eventName = "push"
  THEN [comments |-> cs, commitComments |-> Append(ccs, body), warned |-> FALSE]
  ELSE [comments |-> cs, commitComments |-> ccs, warned |-> TRUE]

\* ------------------------------------------- external deployment-status API
ExternalStates == {"success", "failure", "in_progress", "queued", "pending"}

IsTerminalOnlyFinished(status) == status = "finished"
IsTerminal(status) == status = "finished" \/ status = "failed"

\* the state run() passes after the initial lookup
InitialStateRaw(status) ==
  IF status = "finished" THEN "success"
  ELSE IF status = "failed" THEN "failure" ELSE status
InitialState(status) ==
  IF status = "finished" THEN "success"
  ELSE IF status = "failed" THEN "failure" ELSE "in_progress"

\* the state run() passes after pollUntilComplete returned
FinalState(status) == IF status = "finished" THEN "success" ELSE "failure"

\* the entry createDeploymentStatus records
StatusEntry(githubDeploymentId, state, deployment) ==
  [deployment_id |-> githubDeploymentId, state |-> state,
   log_url |-> LogLink(deployment),
   description |-> <<"Coolify deployment ", deployment.status>>,
   environment_url |-> deployment.fqdn]

\* ------------------------------------------------------------------- state
VARIABLES
  platform,           \* the deployments field the platform serves: Null or Some(list)
  commitSha,          \* github.context.sha
  result,             \* what the last getDeploymentForCommit call returned
  ctx,                \* github.context: issue number, eventName, ref
  tokenUser,          \* the account the GitHub token posts as
  inputs,             \* use_webhooks, update_deployment, poll_interval, timeout (tick units)
  network,            \* whether GitHub calls may fail, and the largest latency
  comments,           \* the issue comments of the pull request
  commitComments,     \* the bodies of the commit comments of the commit
  warnings,           \* core.warning calls about GitHub calls skipped or failed
  pc,                 \* position of run()
  deployment,         \* run()'s variable deployment: Null or Some(d)
  githubDeploymentId, \* run()'s githubDeploymentId, 0 for null
  deploymentRecords,  \* GitHub deployment records created, oldest first
  statusEntries,      \* deployment-status entries created, oldest first
  lastStatus,         \* pollUntilComplete's lastStatus
  startTime,          \* pollUntilComplete's startTime
  now,                \* the wall clock, in tick units
  timedOut,           \* the poll loop returned through its timeout branch (and warned)
  outputs,            \* core.setOutput values, "" when not set
  failed,             \* core.setFailed was called
  published,          \* the findOrCreateComment calls made: status, body, success
  observed,           \* the statuses Locator calls of the run returned
  locatorCalls,       \* number of getDeploymentForCommit calls
  ticks,              \* number of poll-loop iterations begun
  sleeps,             \* number of sleep calls
  racers,             \* the findOrCreateComment calls of concurrent runs in flight
  formatted,          \* the bodies the formatters returned, with their arguments
  kvStore,            \* the webhook receiver's DEPLOYMENT_MAPPINGS store
  handled             \* the requests the webhook receiver answered, with what it did

vars == <<platform, commitSha, result, ctx, tokenUser, inputs, network, comments,
          commitComments, warnings, pc, deployment, githubDeploymentId,
          deploymentRecords, statusEntries, lastStatus, startTime, now, timedOut, outputs,
          failed, published, observed, locatorCalls, ticks, sleeps, racers, runner,
          formatted, kvStore, handled>>

workerVars == <<kvStore, handled>>
envVars == <<platform, commitSha, ctx, tokenUser, inputs, network>>
githubVars == <<comments, commitComments, deploymentRecords, statusEntries>>
loopVars == <<lastStatus, startTime, now, timedOut>>
countVars == <<published, observed, locatorCalls, ticks, sleeps>>

\* no webhook receiver is deployed
IdleWorker == kvStore = {} /\ handled = <<>>

NoResult == [threw |-> FALSE, message |-> <<>>, value |-> Null]
NoOutputs == [found |-> "", status |-> "", url |-> "", log_link |-> <<>>]

\* the outcomes of one GitHub API call: TRUE when it succeeds
ApiOutcomes == IF network.githubFaults THEN BOOLEAN ELSE {TRUE}

\* the HTTP responses the platform can give while it serves the list p
Responses(p) ==
  {[ok |-> TRUE, status |-> "200", statusText |-> "OK", body |-> "",
    deployments |-> p],
   [ok |-> FALSE, status |-> "500", statusText |-> "Internal Server Error",
    body |-> "{\"message\":\"Server Error\"}", deployments |-> Null]}

IsProduction(c) ==
  c.eventName = "push" /\ (c.ref = "refs/heads/main" \/ c.ref = "refs/heads/master")

\* ------------------------------------------------- the platform in a run
\* the deployments a run can meet: d1 and its redeploy d2 are of the run's
\* commit, d3 is of another commit
RunDeployment(uuid, status) ==
  [deployment_uuid |-> uuid,
   commit |-> IF uuid = "d3" THEN "def456" ELSE "abc123",
   status |-> status,
   fqdn |-> IF uuid = "d1" THEN "https://app.example.com" ELSE "",
   created_at |-> IF uuid = "d1" THEN "2024-01-01T10:00:00Z"
                  ELSE IF uuid = "d2" THEN "2024-01-01T11:00:00Z"
                  ELSE "2024-01-01T12:00:00Z",
   finished_at |-> IF IsTerminal(status) THEN "2024-01-01T12:00:00Z" ELSE ""]

\* the statuses each of them is met in
RunStatuses(uuid) ==
  IF uuid = "d1" THEN Statuses
  ELSE IF uuid = "d2" THEN {"in_progress"} ELSE {"finished"}

\* the entries of one deployment in a list: none or one
RunSlot(uuid) == {<<>>} \cup {<<RunDeployment(uuid, st)>> : st \in RunStatuses(uuid)}

\* how far a status is in a deployment's life: the platform only moves a
\* deployment forward
StatusRank(status) ==
  CASE status = "queued" -> 0
    [] status = "in_progress" -> 1
    [] status = "weird_status" -> 2
    [] OTHER -> 3

\* the platform lists newest first, one entry per deployment
RunLists ==
  {s3 \o s2 \o s1 : s3 \in RunSlot("d3"), s2 \in RunSlot("d2"), s1 \in RunSlot("d1")}

\* the pull request's comments before the run: none, a person's comment, or
\* the status comment an earlier run of the same account left
StaleBody == FormatComment(RunDeployment("d1", "queued"), FALSE, Null)
HumanBody == <<<<"LGTM">>>>
RunCommentLists(user) ==
  IF user = ActionsBot
  THEN {<<>>, <<[id |-> 1, user |-> Human, body |-> HumanBody],
                [id |-> 2, user |-> user, body |-> StaleBody]>>}
  ELSE {<<>>}

Init ==
  /\ runner = DefaultRunner
  /\ formatted = <<>>
  /\ IdleWorker
  /\ platform \in {Null} \cup {Some(l) : l \in RunLists}
  /\ commitSha = "abc123"
  /\ result = NoResult
  /\ \E c \in Contexts, u \in {ActionsBot, TokenOwner} :
        /\ (c # PrContext => u = ActionsBot)
        /\ ctx = c
        /\ tokenUser = u
        /\ comments \in (IF c = PrContext THEN RunCommentLists(u) ELSE {<<>>})
  /\ inputs \in [use_webhooks : BOOLEAN, update_deployment : BOOLEAN,
                 poll_interval : 1..MaxInterval, timeout : 0..MaxTimeout]
  /\ network \in [githubFaults : BOOLEAN, maxLatency : 0..MaxLatency]
  \* failing GitHub calls and slow calls are explored with short timeouts
  /\ network.githubFaults =>
        network.maxLatency = 0 /\ inputs.timeout <= MaxFaultTimeout
  /\ network.maxLatency > 0 => inputs.timeout >= MaxTimeout - 1
  \* update_deployment: false is explored with reliable calls, the shortest
  \* poll interval and short timeouts
  /\ ~inputs.update_deployment =>
        /\ ~network.githubFaults /\ network.maxLatency = 0
        /\ inputs.poll_interval = 1 /\ inputs.timeout <= MaxFaultTimeout
  /\ commitComments = <<>>
  /\ warnings = 0
  /\ pc = "start"
  /\ deployment = Null
  /\ githubDeploymentId = 0
  /\ deploymentRecords = <<>>
  /\ statusEntries = <<>>
  /\ lastStatus = ""
  /\ startTime = 0
  /\ now = 0
  /\ timedOut = FALSE
  /\ outputs = NoOutputs
  /\ failed = FALSE
  /\ published = <<>>
  /\ observed = {}
  /\ locatorCalls = 0
  /\ ticks = 0
  /\ sleeps = 0
  /\ racers = <<>>

\* --------------------------------------------------------------- the run
\* the id GitHub gives the deployment record run() creates
NewDeploymentId == 1001

\* the effect of one findOrCreateComment(body) call on the comments; apiOk
\* tells whether the GitHub calls it makes succeed
PublishEffect(d, body, apiOk) ==
  LET r == FindOrCreateComment(ctx, tokenUser, comments, commitComments, body)
  IN /\ published' = Append(published,
           [uuid |-> d.deployment_uuid, status |-> d.status, body |-> body,
            ok |-> apiOk \/ (ctx.issue = 0 /\ ctx.eventName # "push")])
     /\ IF apiOk \/ (ctx.issue = 0 /\ ctx.eventName # "push")
        THEN /\ comments' = r.comments
             /\ commitComments' = r.commitComments
             /\ warnings' = warnings + (IF r.warned THEN 1 ELSE 0)
        ELSE UNCHANGED <<comments, commitComments, warnings>>

\* whether that call throws
PublishThrowsAnyChannel(apiOk) == ~apiOk
PublishThrows(apiOk) == ~apiOk /\ ~(ctx.issue = 0 /\ ctx.eventName # "push")

RunInfo(d) ==
  Some(DeploymentInfo(d, githubDeploymentId, commitSha, IsProduction(ctx), ctx.issue))

\* run()'s try/catch: the call ends the run as a failure exactly when it threw
LookupFailedOrEmpty(r) == r.threw \/ r.value = Null
LookupFailed(r) == r.threw

\* pollUntilComplete, line 217: !deployment || deployment.deployment_uuid !== deploymentUuid
TrackingLostOnlyMissing(value, deploymentUuid) == value = Null
TrackingLost(value, deploymentUuid) ==
  value = Null \/ value[1].deployment_uuid # deploymentUuid

\* pollUntilComplete, line 226: status !== lastStatus
StatusChangedNever(status, last) == FALSE
StatusChanged(status, last) == status # last

\* what parseInt gives for text that does not start with a digit; every
\* comparison with it is false
NaN == -1

\* run(), lines 257-258: parseInt(text, 10) of an unsigned input, the text
\* given as its characters: the value of the leading digits, NaN without one
DigitValue(c) ==
  CASE c = "0" -> 0 [] c = "1" -> 1 [] c = "2" -> 2 [] c = "3" -> 3
    [] c = "4" -> 4 [] c = "5" -> 5 [] c = "6" -> 6 [] c = "7" -> 7
    [] c = "8" -> 8 [] c = "9" -> 9 [] OTHER -> NaN
RECURSIVE LeadingDigits(_, _)
LeadingDigits(s, acc) ==
  IF s = <<>> \/ DigitValue(Head(s)) = NaN THEN acc
  ELSE LeadingDigits(Tail(s), acc * 10 + DigitValue(Head(s)))
ParseInt(s) ==
  IF s = <<>> \/ DigitValue(Head(s)) = NaN THEN NaN ELSE LeadingDigits(s, 0)

\* run(), lines 257-258: core.getInput(name) || fallback
InputOr(text, fallback) == IF text = <<>> THEN fallback ELSE text

\* pollUntilComplete, line 241: elapsed >= timeoutMs
TimeoutExceeded(elapsed, timeoutMs) == elapsed > timeoutMs
TimeoutReached(elapsed, timeoutMs) == timeoutMs # NaN /\ elapsed >= timeoutMs

\* run(), lines 281-293: the initial lookup
InitialLookup ==
  /\ pc = "start"
  /\ \E resp \in Responses(platform) :
       LET r == GetDeploymentForCommit(resp, commitSha)
       IN /\ result' = r
          /\ locatorCalls' = locatorCalls + 1
          /\ IF LookupFailed(r)
             THEN /\ failed' = TRUE
                  /\ pc' = "aborted"
                  /\ UNCHANGED <<deployment, outputs, observed>>
             ELSE IF r.value = Null
             THEN /\ outputs' = [outputs EXCEPT !.found = "false"]
                  /\ pc' = "done"
                  /\ UNCHANGED <<deployment, failed, observed>>
             ELSE /\ deployment' = r.value
                  /\ observed' = observed \cup {r.value[1].status}
                  /\ pc' = "createDeployment"
                  /\ UNCHANGED <<outputs, failed>>
  /\ UNCHANGED <<racers, runner, formatted>>
  /\ UNCHANGED workerVars
  /\ UNCHANGED <<envVars, githubVars, loopVars, warnings, githubDeploymentId,
                 published, ticks, sleeps>>

\* run(), lines 301-321: the optional GitHub deployment record
CreateDeployment ==
  /\ pc = "createDeployment"
  /\ \E apiOk \in ApiOutcomes :
       IF apiOk
       THEN /\ githubDeploymentId' = NewDeploymentId
            /\ deploymentRecords' = Append(deploymentRecords,
                 [id |-> NewDeploymentId, ref |-> commitSha,
                  environment |-> IF IsProduction(ctx) THEN "production"
                                  ELSE "preview"])
            /\ UNCHANGED warnings
       ELSE /\ warnings' = warnings + 1
            /\ UNCHANGED <<githubDeploymentId, deploymentRecords>>
  /\ pc' = "initialComment"
  /\ UNCHANGED <<racers, runner, formatted>>
  /\ UNCHANGED workerVars
  /\ UNCHANGED <<envVars, result, comments, commitComments, statusEntries,
                 loopVars, deployment, outputs, failed, countVars>>

\* run(), lines 334-336: the initial comment; a failure is not caught here
InitialComment ==
  /\ pc = "initialComment"
  /\ \E apiOk \in ApiOutcomes :
       /\ PublishEffect(deployment[1], FormatComment(deployment[1], IsProduction(ctx),
                                      RunInfo(deployment[1])), apiOk)
       /\ IF PublishThrows(apiOk)
          THEN failed' = TRUE /\ pc' = "aborted"
          ELSE failed' = failed /\ pc' = "initialStatus"
  /\ UNCHANGED <<racers, runner, formatted>>
  /\ UNCHANGED workerVars
  /\ UNCHANGED <<envVars, result, deploymentRecords, statusEntries, loopVars,
                 deployment, githubDeploymentId, outputs, observed,
                 locatorCalls, ticks, sleeps>>

\* run(), lines 339 and 379: if (githubDeploymentId)
HasDeploymentRecordAlways(id) == TRUE
HasDeploymentRecord(id) == id # 0

\* run(), lines 354-357: no polling for a deployment that is already complete
\* and none in webhook mode
SkipsPollingOnlyWhenComplete(status, useWebhooks) == IsTerminal(status)
SkipsPolling(status, useWebhooks) == IsTerminal(status) \/ useWebhooks

\* run(), lines 338-376: the first deployment-status entry, then the choice
\* between finishing, webhook mode and entering pollUntilComplete
InitialStatus ==
  /\ pc = "initialStatus"
  /\ IF HasDeploymentRecord(githubDeploymentId)
     THEN \E apiOk \in ApiOutcomes :
            IF apiOk
            THEN /\ statusEntries' = Append(statusEntries,
                      StatusEntry(githubDeploymentId,
                                  InitialState(deployment[1].status),
                                  deployment[1]))
                 /\ UNCHANGED warnings
            ELSE /\ warnings' = warnings + 1
                 /\ UNCHANGED statusEntries
     ELSE UNCHANGED <<statusEntries, warnings>>
  /\ IF SkipsPolling(deployment[1].status, inputs.use_webhooks)
     THEN /\ pc' = "finalize"
          /\ UNCHANGED <<lastStatus, startTime>>
     ELSE /\ pc' = "poll"
          /\ startTime' = now
          /\ lastStatus' = ""
  /\ UNCHANGED <<racers, runner, formatted>>
  /\ UNCHANGED workerVars
  /\ UNCHANGED <<envVars, result, comments, commitComments, deploymentRecords,
                 now, timedOut, deployment, githubDeploymentId, outputs,
                 failed, countVars>>

\* run(), lines 363-406: where a throw inside pollUntilComplete lands: in the
\* catch block, past the final status entry, the outputs and the final comment
AfterPollingThrowFinalStatus == "finalStatus"
AfterPollingThrow == "aborted"

\* pollUntilComplete, lines 233-248: how an iteration ends, the terminal
\* check first, then the timeout check, else the sleep
TickOutcomeTimeoutFirst(status, elapsed, timeoutMs) ==
  IF TimeoutReached(elapsed, timeoutMs) THEN "timeout"
  ELSE IF IsTerminal(status) THEN "terminal"
  ELSE "sleep"
TickOutcome(status, elapsed, timeoutMs) ==
  IF IsTerminal(status) THEN "terminal"
  ELSE IF TimeoutReached(elapsed, timeoutMs) THEN "timeout"
  ELSE "sleep"

\* pollUntilComplete, lines 214-249: one iteration of the loop up to its
\* return, its throw or its sleep call; the remote calls take latency ticks
PollTick ==
  /\ pc = "poll"
  /\ ticks < MaxTicks
  /\ \E resp \in Responses(platform), latency \in 0..network.maxLatency, apiOk \in ApiOutcomes :
       LET r == GetDeploymentForCommit(resp, commitSha)
       IN /\ result' = r
          /\ locatorCalls' = locatorCalls + 1
          /\ ticks' = ticks + 1
          /\ now' = now + latency
          /\ IF LookupFailed(r)
                \/ TrackingLost(r.value, deployment[1].deployment_uuid)
             THEN /\ failed' = TRUE
                  /\ pc' = AfterPollingThrow
                  /\ UNCHANGED <<comments, commitComments, warnings, lastStatus,
                                 timedOut, deployment, published, observed>>
             ELSE LET d == r.value[1]
                  IN /\ observed' = observed \cup {d.status}
                     /\ IF StatusChanged(d.status, lastStatus)
                        THEN /\ PublishEffect(d, FormatComment(d, IsProduction(ctx), Null),
                                              apiOk)
                             /\ lastStatus' = d.status
                        ELSE UNCHANGED <<comments, commitComments, warnings,
                                         published, lastStatus>>
                     /\ failed' = failed
                     /\ LET outcome == TickOutcome(d.status, now' - startTime,
                                                   inputs.timeout)
                        IN IF outcome = "terminal"
                           THEN /\ deployment' = Some(d)
                                /\ pc' = "finalStatus"
                                /\ UNCHANGED timedOut
                           ELSE IF outcome = "timeout"
                           THEN /\ deployment' = Some(d)
                                /\ timedOut' = TRUE
                                /\ pc' = "finalStatus"
                           ELSE /\ pc' = "sleep"
                                /\ UNCHANGED <<deployment, timedOut>>
  /\ UNCHANGED <<racers, runner, formatted>>
  /\ UNCHANGED workerVars
  /\ UNCHANGED <<envVars, deploymentRecords, statusEntries, startTime,
                 githubDeploymentId, outputs, sleeps>>

\* pollUntilComplete, line 248: await sleep(pollIntervalMs)
SleepWithBackoff ==
  /\ pc = "sleep"
  /\ now' = now + inputs.poll_interval * (sleeps + 1)
  /\ sleeps' = sleeps + 1
  /\ pc' = "poll"
  /\ UNCHANGED <<racers, runner, formatted>>
  /\ UNCHANGED workerVars
  /\ UNCHANGED <<envVars, result, githubVars, warnings, deployment,
                 githubDeploymentId, lastStatus, startTime, timedOut, outputs,
                 failed, published, observed, locatorCalls, ticks>>
Sleep ==
  /\ pc = "sleep"
  /\ now' = now + inputs.poll_interval
  /\ sleeps' = sleeps + 1
  /\ pc' = "poll"
  /\ UNCHANGED <<racers, runner, formatted>>
  /\ UNCHANGED workerVars
  /\ UNCHANGED <<envVars, result, githubVars, warnings, deployment,
                 githubDeploymentId, lastStatus, startTime, timedOut, outputs,
                 failed, published, observed, locatorCalls, ticks>>

\* run(), lines 378-387: the deployment-status entry after polling
FinalStatus ==
  /\ pc = "finalStatus"
  /\ IF HasDeploymentRecord(githubDeploymentId)
     THEN \E apiOk \in ApiOutcomes :
            IF apiOk
            THEN /\ statusEntries' = Append(statusEntries,
                      StatusEntry(githubDeploymentId,
                                  FinalState(deployment[1].status),
                                  deployment[1]))
                 /\ UNCHANGED warnings
            ELSE /\ warnings' = warnings + 1
                 /\ UNCHANGED statusEntries
     ELSE UNCHANGED <<statusEntries, warnings>>
  /\ pc' = "finalize"
  /\ UNCHANGED <<racers, runner, formatted>>
  /\ UNCHANGED workerVars
  /\ UNCHANGED <<envVars, result, comments, commitComments, deploymentRecords,
                 loopVars, deployment, githubDeploymentId, outputs, failed,
                 countVars>>

\* run(), lines 390-393: the outputs of a run that found a deployment
RunOutputsFirstSeen(d) ==
  [found |-> "true", status |-> published[1].status,
   url |-> d.fqdn, log_link |-> LogLink(d)]
RunOutputs(d) ==
  [found |-> "true", status |-> d.status,
   url |-> d.fqdn, log_link |-> LogLink(d)]

\* run(), lines 390-398: the outputs and the final comment, whose failure is
\* swallowed
Finalize ==
  /\ pc = "finalize"
  /\ outputs' = RunOutputs(deployment[1])
  /\ \E apiOk \in ApiOutcomes :
       PublishEffect(deployment[1], FormatComment(deployment[1], IsProduction(ctx),
                                   RunInfo(deployment[1])), apiOk)
  /\ pc' = "done"
  /\ UNCHANGED <<racers, runner, formatted>>
  /\ UNCHANGED workerVars
  /\ UNCHANGED <<envVars, result, deploymentRecords, statusEntries, loopVars,
                 deployment, githubDeploymentId, failed, observed,
                 locatorCalls, ticks, sleeps>>

\* the platform moves on while the run waits: a deployment of the commit
\* moves forward in its life, a deployment of the commit appears in the
\* window, or one leaves it
PlatformStep ==
  /\ pc \in {"initialStatus", "sleep"}
  /\ platform # Null
  /\ \E l \in RunLists :
       LET old == platform[1]
           Without(s, i) == SubSeq(s, 1, i - 1) \o SubSeq(s, i + 1, Len(s))
       IN /\ \/ /\ Len(l) = Len(old)
                /\ \E i \in 1..Len(old) :
                     /\ l[i].deployment_uuid = old[i].deployment_uuid
                     /\ StatusRank(l[i].status) > StatusRank(old[i].status)
                     /\ \A j \in 1..Len(old) : j # i => l[j] = old[j]
             \/ /\ Len(l) = Len(old) + 1
                /\ \E i \in 1..Len(l) :
                     l[i].commit = commitSha /\ old = Without(l, i)
             \/ /\ Len(l) = Len(old) - 1
                /\ \E i \in 1..Len(old) :
                     old[i].commit = commitSha /\ l = Without(old, i)
          /\ platform' = Some(l)
  /\ UNCHANGED <<racers, runner, formatted>>
  /\ UNCHANGED workerVars
  /\ UNCHANGED <<commitSha, ctx, tokenUser, inputs, network, result, githubVars,
                 loopVars, warnings, pc, deployment, githubDeploymentId,
                 outputs, failed, countVars>>

Next ==
  \/ InitialLookup
  \/ CreateDeployment
  \/ InitialComment
  \/ InitialStatus
  \/ PollTick
  \/ Sleep
  \/ FinalStatus
  \/ Finalize
  \/ PlatformStep

Spec == Init /\ [][Next]_vars

\* the texts given for timeout_minutes: a number, a number with a unit, a
\* word, nothing at all
TimeoutTexts == {<<"2">>, <<"1", "m">>, <<"a", "b", "c">>, <<>>}
\* the fallbacks of lines 257-258, in tick units
DefaultPollInterval == <<"1">>
DefaultTimeout == <<"3">>

\* run() started with its number inputs as the workflow file gives them:
\* reliable GitHub calls, no latency, the default poll interval
InitUnparsed ==
  /\ runner = DefaultRunner
  /\ formatted = <<>>
  /\ IdleWorker
  /\ platform \in {Null} \cup {Some(l) : l \in RunLists}
  /\ commitSha = "abc123"
  /\ result = NoResult
  /\ ctx \in Contexts
  /\ tokenUser = ActionsBot
  /\ comments = <<>>
  /\ \E text \in TimeoutTexts :
        inputs = [use_webhooks |-> FALSE, update_deployment |-> TRUE,
                  poll_interval |-> ParseInt(InputOr(<<>>, DefaultPollInterval)),
                  timeout |-> ParseInt(InputOr(text, DefaultTimeout))]
  /\ network = [githubFaults |-> FALSE, maxLatency |-> 0]
  /\ commitComments = <<>>
  /\ warnings = 0
  /\ pc = "start"
  /\ deployment = Null
  /\ githubDeploymentId = 0
  /\ deploymentRecords = <<>>
  /\ statusEntries = <<>>
  /\ lastStatus = ""
  /\ startTime = 0
  /\ now = 0
  /\ timedOut = FALSE
  /\ outputs = NoOutputs
  /\ failed = FALSE
  /\ published = <<>>
  /\ observed = {}
  /\ locatorCalls = 0
  /\ ticks = 0
  /\ sleeps = 0
  /\ racers = <<>>

SpecUnparsed == InitUnparsed /\ [][Next]_vars

TypeOK ==
  /\ pc \in {"start", "createDeployment", "initialComment", "initialStatus",
             "poll", "sleep", "finalStatus", "finalize", "done", "aborted"}
  /\ Len(deployment) <= 1
  /\ githubDeploymentId \in {0, NewDeploymentId}
  /\ observed \subseteq Statuses

\* ------------------------------------------------- the Locator on its own
UuidOf == <<"d1", "d2", "d3", "d4", "d5">>

\* every response list of up to MaxListLen deployments, in any order, with
\* any commits and creation times
LocatorLists ==
  UNION {{[i \in 1..n |->
             [deployment_uuid |-> UuidOf[i], commit |-> f[i][1],
              status |-> "in_progress", fqdn |-> "",
              created_at |-> f[i][2], finished_at |-> ""]] :
            f \in [1..n -> Commits \X Timestamps]} : n \in 0..MaxListLen}

\* the run-local state before run() starts
IdleRun ==
  /\ result = NoResult
  /\ inputs = [use_webhooks |-> FALSE, update_deployment |-> TRUE,
               poll_interval |-> 1, timeout |-> 0]
  /\ commitComments = <<>>
  /\ warnings = 0
  /\ deployment = Null
  /\ githubDeploymentId = 0
  /\ deploymentRecords = <<>>
  /\ statusEntries = <<>>
  /\ lastStatus = ""
  /\ startTime = 0
  /\ now = 0
  /\ timedOut = FALSE
  /\ outputs = NoOutputs
  /\ failed = FALSE
  /\ published = <<>>
  /\ observed = {}
  /\ locatorCalls = 0
  /\ ticks = 0
  /\ sleeps = 0

InitLocator ==
  /\ runner = DefaultRunner
  /\ formatted = <<>>
  /\ IdleWorker
  /\ platform \in {Null} \cup {Some(l) : l \in LocatorLists}
  /\ commitSha \in Commits
  /\ pc = "locate"
  /\ ctx = PrContext
  /\ tokenUser = ActionsBot
  /\ network = [githubFaults |-> FALSE, maxLatency |-> 0]
  /\ comments = <<>>
  /\ racers = <<>>
  /\ IdleRun

\* one call of getDeploymentForCommit
Locate ==
  /\ pc = "locate"
  /\ \E resp \in Responses(platform) :
       result' = GetDeploymentForCommit(resp, commitSha)
  /\ locatorCalls' = locatorCalls + 1
  /\ pc' = "located"
  /\ UNCHANGED <<racers, runner, formatted>>
  /\ UNCHANGED workerVars
  /\ UNCHANGED <<envVars, githubVars, loopVars, warnings, deployment,
                 githubDeploymentId, outputs, failed, published, observed, ticks,
                 sleeps>>

NextLocator == Locate

SpecLocator == InitLocator /\ [][NextLocator]_vars

\* the deployments the platform lists (none when the field is missing)
Listed == IF platform = Null THEN <<>> ELSE platform[1]
ListedFor(sha) == {i \in 1..Len(Listed) : Listed[i].commit = sha}

\* C8 (recency selection): when commitSha occurs in the list, the Locator
\* returns a listed deployment of exactly that commit whose creation time is
\* the maximum among the listed deployments of that commit.
C8_RecencySelection ==
  (pc = "located" /\ ~result.threw /\ ListedFor(commitSha) # {}) =>
     /\ result.value # Null
     /\ result.value[1].commit = commitSha
     /\ \E i \in ListedFor(commitSha) : Listed[i] = result.value[1]
     /\ \A i \in ListedFor(commitSha) :
          DateGetTime(Listed[i].created_at)
            <= DateGetTime(result.value[1].created_at)

\* the newest deployment of the commit is listed after an older one of the
\* same commit, and a deployment of another commit is newer than both
C8_Witness ==
  /\ pc = "located" /\ ~result.threw /\ result.value # Null
  /\ \E i, j, k \in 1..Len(Listed) :
       /\ i < j
       /\ Listed[j] = result.value[1]
       /\ Listed[i].commit = commitSha
       /\ DateGetTime(Listed[i].created_at) < DateGetTime(Listed[j].created_at)
       /\ Listed[k].commit # commitSha
       /\ DateGetTime(Listed[k].created_at) > DateGetTime(Listed[j].created_at)

\* C9 (no match): an answered Locator call returns null exactly when no
\* listed deployment has a commit equal to commitSha, which includes an
\* empty list and a response without the deployments field.
C9_NoMatchIffAbsent ==
  (pc = "located" /\ ~result.threw) =>
     (result.value = Null <=> ListedFor(commitSha) = {})

\* not found although a deployment's commit differs from commitSha in
\* letter case only
C9_Witness ==
  /\ pc = "located" /\ ~result.threw /\ result.value = Null
  /\ \E i \in 1..Len(Listed) :
       /\ Listed[i].commit # commitSha
       /\ ToLowerCase(Listed[i].commit) = ToLowerCase(commitSha)

\* ---------------------------------------------- the publisher on its own
\* the comments a pull request can hold before a publish: of a person, of
\* another bot or of the token's account, with or without the marker; earlier
\* runs have left at most one comment that the publisher recognises
PublishCommentLists(user) ==
  {cs \in UNION {{[i \in 1..n |-> [id |-> i, user |-> f[i][1], body |-> f[i][2]]] :
                    f \in [1..n -> {Human, OtherBot, user} \X {HumanBody, StaleBody}]} :
                 n \in 0..MaxComments} :
     Cardinality({i \in 1..Len(cs) : IsExisting(cs[i])}) <= 1}

\* the deployments whose formatted status is published
PublishDeployments == {RunDeployment("d1", st) : st \in {"in_progress", "finished"}}

InitPublish ==
  /\ runner = DefaultRunner
  /\ formatted = <<>>
  /\ IdleWorker
  /\ platform = Some(<<>>)
  /\ commitSha = "abc123"
  /\ ctx \in Contexts
  /\ tokenUser \in {ActionsBot, TokenOwner}
  /\ network = [githubFaults |-> TRUE, maxLatency |-> 0]
  /\ comments \in PublishCommentLists(tokenUser)
  /\ pc = "publish"
  /\ racers = <<>>
  /\ IdleRun

\* one call of findOrCreateComment with a formatted body; a failing GitHub
\* call makes it throw and leaves the comments as they were
Publish ==
  /\ pc = "publish"
  /\ Len(published) < MaxPublishes
  /\ \E d \in PublishDeployments, apiOk \in ApiOutcomes :
       PublishEffect(d, FormatComment(d, IsProduction(ctx), Null), apiOk)
  /\ UNCHANGED <<racers, runner, formatted>>
  /\ UNCHANGED workerVars
  /\ UNCHANGED <<envVars, result, deploymentRecords, statusEntries, loopVars,
                 pc, deployment, githubDeploymentId, outputs, failed, observed,
                 locatorCalls, ticks, sleeps>>

NextPublish == Publish

SpecPublish == InitPublish /\ [][NextPublish]_vars

\* the bot's comments that carry the marker: those a Bot wrote and those
\* the account the token posts as wrote
BotStatusComments ==
  {i \in 1..Len(comments) :
     /\ IsExistingAnyAuthor(comments[i])
     /\ (comments[i].user.type = "Bot" \/ comments[i].user.login = tokenUser.login)}

\* the last two publishes succeeded and had the same body
PublishedTwice ==
  /\ Len(published) >= 2
  /\ published[Len(published)].ok /\ published[Len(published) - 1].ok
  /\ published[Len(published)].body = published[Len(published) - 1].body

\* C7 (idempotent comment update): on a pull request, after two publishes in
\* a row with the same body, from any comment list, exactly one comment of
\* the bot carries the marker and its body is that input.
C7_IdempotentUpdate ==
  (pc = "publish" /\ ctx.issue # 0 /\ PublishedTwice) =>
     /\ Cardinality(BotStatusComments) = 1
     /\ \A i \in BotStatusComments : comments[i].body = published[Len(published)].body

\* ------------------------------------------------------ claims on the run
\* the state of the reconciliation session (spec section 4.2)
SessionState ==
  IF pc = "aborted" THEN "ABORTED"
  ELSE IF pc \in {"start", "createDeployment", "initialComment", "initialStatus"}
  THEN "INITIAL"
  ELSE IF pc \in {"poll", "sleep"} THEN "POLLING"
  ELSE IF deployment # Null /\ IsTerminal(deployment[1].status) THEN "TERMINAL"
  ELSE IF timedOut THEN "TIMED_OUT"
  ELSE "ENDED"

\* the run has found a deployment and completed
Completed == pc = "done" /\ outputs.found = "true"

\* C1 (comment emission policy): the publisher is invoked once per distinct
\* observed status and once more at the end of the run; before that final
\* call no status is published twice, so the first poll tick does not
\* publish the status of the initial lookup again.
C1_EmitOncePerStatus ==
  /\ Completed => Len(published) = Cardinality(observed) + 1
  /\ pc \in {"poll", "sleep", "finalStatus"} =>
       \A i, j \in 1..Len(published) :
          i # j => published[i].status # published[j].status

\* C2 (terminal short-circuit): a run whose first Locator result is already
\* finished or failed publishes exactly one comment, sleeps never, calls the
\* Locator once and ends in TERMINAL.
C2_TerminalShortCircuit ==
  (Completed /\ ticks = 0 /\ IsTerminal(deployment[1].status)) =>
     /\ Len(published) = 1
     /\ sleeps = 0
     /\ locatorCalls = 1
     /\ SessionState = "TERMINAL"

\* the poll loop has returned in a run with poll interval 1 and timeout 3 in
\* which every Locator call returned in_progress and the clock advanced by
\* the sleeps only
TimeoutScenario ==
  /\ pc \in {"finalStatus", "finalize", "done"}
  /\ ticks > 0
  /\ inputs.poll_interval = 1 /\ inputs.timeout = 3
  /\ observed = {"in_progress"}
  /\ now = sleeps * inputs.poll_interval

\* C3 as stated (timeout path): in that scenario the loop performed exactly
\* 3 ticks and the session is TIMED_OUT, without error, reporting
\* in_progress.
C3_TimeoutAfterThreeTicks ==
  TimeoutScenario =>
     /\ ticks = 3
     /\ SessionState = "TIMED_OUT" /\ ~failed
     /\ pc = "done" => outputs.status = "in_progress"

\* C3 amended: in that scenario the loop performed exactly 4 ticks (at
\* elapsed times 0, 1, 2 and 3) with 3 sleeps between them, and the session
\* is TIMED_OUT, without error, reporting in_progress.
C3_TimeoutAfterFourTicks ==
  TimeoutScenario =>
     /\ ticks = 4 /\ sleeps = 3
     /\ SessionState = "TIMED_OUT" /\ ~failed
     /\ pc = "done" => (outputs.found = "true" /\ outputs.status = "in_progress")

C3_Witness == TimeoutScenario /\ pc = "done" /\ timedOut

\* the last Locator call was a poll tick that found no deployment of the
\* commit or one with another identifier than the tracked one
TrackingLostNow ==
  /\ ticks > 0 /\ ~result.threw /\ deployment # Null
  /\ \/ result.value = Null
     \/ result.value[1].deployment_uuid # deployment[1].deployment_uuid

\* C4 (tracking-loss detection): once a tick has lost the tracked
\* deployment the run is aborted and marked failed, it sets no output, it
\* still holds the deployment first observed, and every comment it
\* published is about that deployment.
C4_TrackingLossAborts ==
  TrackingLostNow =>
     /\ pc = "aborted" /\ failed
     /\ SessionState = "ABORTED"
     /\ outputs = NoOutputs
     /\ \A i \in 1..Len(published) :
          published[i].uuid = deployment[1].deployment_uuid

\* a newer deployment of the same commit took the place of the tracked one
C4_Witness ==
  /\ TrackingLostNow /\ result.value # Null
  /\ result.value[1].commit = commitSha
  /\ ticks >= 2

\* the state the table of spec section 4.2 gives a status
TableState(status) ==
  CASE status = "finished" -> "success"
    [] status = "failed" -> "failure"
    [] status = "in_progress" -> "in_progress"
    [] status = "queued" -> "queued"
    [] OTHER -> "pending"

\* C5 (external deployment-status mapping): every deployment-status entry
\* published carries the state the table gives the deployment's status.
C5_StateFollowsTable ==
  \A i \in 1..Len(statusEntries) :
     statusEntries[i].state = TableState(statusEntries[i].description[2])

\* C6 (mapping totality): a step that publishes deployment-status entries
\* neither fails nor aborts the run, and every entry it leaves, whatever the
\* status, has a state among success, failure, in_progress, queued, pending.
C6_StateTotal ==
  [][(pc \in {"initialStatus", "finalStatus"}) =>
       (/\ failed' = failed
        /\ pc' # "aborted"
        /\ \A i \in 1..Len(statusEntries') :
             statusEntries'[i].state \in ExternalStates)]_vars

\* an entry was published for a status the platform does not document
C6_Witness ==
  \E i \in 1..Len(statusEntries) :
     statusEntries[i].description[2] = "weird_status"

C11_TimeoutIsNotAnError ==
  timedOut =>
     /\ ~failed
     /\ pc \in {"finalStatus", "finalize", "done"}
     /\ now - startTime >= inputs.timeout
     /\ ~result.threw /\ result.value # Null
     /\ result.value[1].status \notin {"finished", "failed"}
     /\ result.value[1].status = lastStatus
     /\ pc = "done" =>
          /\ outputs.found = "true"
          /\ outputs.status = result.value[1].status

\* a run that timed out after the status had changed while it polled, and
\* whose last comment call failed
C11_Witness ==
  /\ timedOut /\ pc = "done"
  /\ Cardinality(observed) >= 2
  /\ outputs.status # published[1].status
  /\ ~published[Len(published)].ok

\* C12 (comment API failures are fatal): once a comment API call of the run
\* has failed, at the initial comment, inside the poll loop or at the final
\* comment, the run is aborted and marked failed, and the failed call was
\* the last thing it published.
C12_CommentFailureIsFatal ==
  \A i \in 1..Len(published) :
     ~published[i].ok => (pc = "aborted" /\ failed /\ i = Len(published))

\* C13 (Locator errors): a non-success response of the platform, at the
\* initial lookup or at a poll tick, aborts the run and marks it failed with
\* an error that carries the HTTP status and the response body, after
\* exactly one request for that call (one more than the ticks begun).
C13_LocatorErrorCarriesBody ==
  result.threw =>
     /\ pc = "aborted" /\ failed
     /\ locatorCalls = ticks + 1
     /\ \E i \in 1..Len(result.message) : result.message[i] = "500"
     /\ \E i \in 1..Len(result.message) :
          result.message[i] = "{\"message\":\"Server Error\"}"

\* C14 as stated (polling discipline): every Locator call of the run but
\* the first is preceded by one sleep more than the call before it, the
\* first poll tick after the initial lookup included, and every sleep lasts
\* exactly the configured poll interval.
C14_SleepBetweenLocatorCalls ==
  [][/\ (locatorCalls' = locatorCalls + 1 /\ locatorCalls >= 1) =>
           sleeps = locatorCalls
     /\ (sleeps' = sleeps + 1) => (now' = now + inputs.poll_interval)]_vars

\* C14 amended: every poll tick but the first is preceded by one sleep more
\* than the tick before it, the first poll tick follows the initial lookup
\* without a sleep, and every sleep follows a tick and lasts exactly the
\* configured poll interval, whatever the calls' latency was.
C14_SleepBetweenTicks ==
  [][/\ (ticks' = ticks + 1) => (sleeps = ticks /\ locatorCalls = ticks + 1)
     /\ (sleeps' = sleeps + 1) =>
           /\ now' = now + inputs.poll_interval
           /\ sleeps + 1 = ticks
           /\ locatorCalls' = locatorCalls]_vars

\* three ticks with two sleeps of the longest interval between them, in a
\* run whose calls took time
C14_Witness ==
  /\ ticks >= 3 /\ sleeps = ticks - 1
  /\ inputs.poll_interval = MaxInterval
  /\ now > startTime + sleeps * inputs.poll_interval

\* C15 (no transition back): once a Locator result with status finished or
\* failed has been observed, or the timeout has been detected, the run makes
\* no further Locator call and no further sleep and never polls again; when
\* that happened in the poll loop, its remaining steps are the final
\* deployment-status entry and the final outputs and comment, and none of
\* them fails the run.
C15_NoWayBack ==
  [][(timedOut \/ observed \cap {"finished", "failed"} # {}) =>
       (/\ locatorCalls' = locatorCalls /\ ticks' = ticks /\ sleeps' = sleeps
        /\ lastStatus' = lastStatus /\ deployment' = deployment
        /\ timedOut' = timedOut
        /\ pc' \notin {"start", "poll", "sleep"}
        /\ ticks > 0 =>
             /\ pc \in {"finalStatus", "finalize", "done"}
             /\ pc' \in {"finalize", "done"}
             /\ ~failed /\ ~failed')]_vars

\* a run that polled, observed failed at a tick and went on to its end
C15_Witness ==
  /\ pc = "done" /\ ticks >= 2
  /\ "failed" \in observed
  /\ Len(statusEntries) = 2

\* the bodies of the publishes that succeeded, in order
RECURSIVE OkBodies(_)
OkBodies(ps) ==
  IF ps = <<>> THEN <<>>
  ELSE (IF ps[1].ok THEN <<ps[1].body>> ELSE <<>>) \o OkBodies(Tail(ps))

\* C16 (push channel is append-only): on a push event every publish that
\* succeeds adds one commit comment with the published body and changes no
\* earlier one, so the commit comments are the bodies published so far, in
\* order, and no issue comment is touched.
C16_PushAppendOnly ==
  (ctx.eventName = "push" /\ ctx.issue = 0) =>
     /\ commitComments = OkBodies(published)
     /\ comments = <<>>

\* a finished push run that left three commit comments, the first and the
\* last of them with the same body
C16_Witness ==
  /\ ctx.eventName = "push" /\ pc = "done"
  /\ Len(commitComments) = 3
  /\ commitComments[1] = commitComments[3]

\* C17 (no suitable channel): in a run that is neither of a pull request nor
\* of a push, every publish succeeds as a no-op with a warning, whatever the
\* GitHub API does: no issue or commit comment is ever written, and the run
\* fails only when a Locator call failed or the tracked deployment was lost.
C17_NoChannelIsNoOp ==
  (ctx.issue = 0 /\ ctx.eventName # "push") =>
     /\ comments = <<>> /\ commitComments = <<>>
     /\ \A i \in 1..Len(published) : published[i].ok
     /\ warnings >= Len(published)
     /\ ~network.githubFaults => warnings = Len(published)
     /\ failed => (result.threw \/ TrackingLostNow)
     /\ (pc = "done" /\ published # <<>>) => outputs.found = "true"

\* a workflow_dispatch run with a failing GitHub API that polled and ended
\* after three publishes
C17_Witness ==
  /\ ctx = DispatchContext /\ network.githubFaults
  /\ pc = "done" /\ ticks >= 1 /\ Len(published) >= 3
  /\ warnings > Len(published)

\* ------------------------------------ concurrent runs on one pull request
\* two runs of the action for the same pull request, each in one call of
\* findOrCreateComment: the call lists the comments, looks for the status
\* comment in what it listed, and then updates that comment or creates one
Racers == {1, 2}

\* the pull request before the two calls: without a status comment, or with
\* the one an earlier run left
RaceCommentLists ==
  {<<>>,
   <<[id |-> 1, user |-> Human, body |-> HumanBody]>>,
   <<[id |-> 1, user |-> Human, body |-> HumanBody],
     [id |-> 2, user |-> ActionsBot, body |-> StaleBody]>>}

\* the deployments the two runs report
RaceDeployments == {RunDeployment("d1", st) : st \in Statuses}

InitRace ==
  /\ runner = DefaultRunner
  /\ formatted = <<>>
  /\ IdleWorker
  /\ platform = Some(<<>>)
  /\ commitSha = "abc123"
  /\ ctx = PrContext
  /\ tokenUser = ActionsBot
  /\ network = [githubFaults |-> FALSE, maxLatency |-> 0]
  /\ comments \in RaceCommentLists
  /\ pc = "race"
  /\ racers \in [Racers -> {[pc |-> "list", deployment |-> d, listed |-> {},
                             existing |-> 0, created |-> 0] :
                              d \in RaceDeployments}]
  /\ IdleRun

\* findOrCreateComment, lines 147-155: issues.listComments and comments.find
ListComments(r) ==
  /\ pc = "race"
  /\ racers[r].pc = "list"
  /\ racers' = [racers EXCEPT ![r] =
        [@ EXCEPT !.pc = "write",
                  !.listed = {comments[i].id : i \in 1..Len(comments)},
                  !.existing = IF FindExisting(comments) # 0
                               THEN comments[FindExisting(comments)].id
                               ELSE 0]]
  /\ UNCHANGED <<runner, formatted>>
  /\ UNCHANGED workerVars
  /\ UNCHANGED <<envVars, result, githubVars, warnings, pc, deployment,
                 githubDeploymentId, loopVars, outputs, failed, countVars>>

\* findOrCreateComment, lines 157-174: issues.updateComment of the comment
\* found in the list, or issues.createComment when none was found
WriteComment(r) ==
  /\ pc = "race"
  /\ racers[r].pc = "write"
  /\ LET d == racers[r].deployment
         body == FormatComment(d, IsProduction(ctx), Null)
         id == NextCommentId(comments)
     IN /\ IF racers[r].existing # 0
           THEN /\ comments' = [i \in 1..Len(comments) |->
                       IF comments[i].id = racers[r].existing
                       THEN [comments[i] EXCEPT !.body = body]
                       ELSE comments[i]]
                /\ racers' = [racers EXCEPT ![r].pc = "done"]
           ELSE /\ comments' = Append(comments,
                       [id |-> id, user |-> tokenUser, body |-> body])
                /\ racers' = [racers EXCEPT ![r].pc = "done", ![r].created = id]
        /\ published' = Append(published,
              [uuid |-> d.deployment_uuid, status |-> d.status, body |-> body,
               ok |-> TRUE])
  /\ UNCHANGED <<runner, formatted>>
  /\ UNCHANGED workerVars
  /\ UNCHANGED <<envVars, result, commitComments, deploymentRecords,
                 statusEntries, warnings, pc, deployment, githubDeploymentId,
                 loopVars, outputs, failed, observed, locatorCalls, ticks,
                 sleeps>>

NextRace == \E r \in Racers : ListComments(r) \/ WriteComment(r)

SpecRace == InitRace /\ [][NextRace]_vars

\* both calls have returned
RaceOver == pc = "race" /\ \A r \in Racers : racers[r].pc = "done"

\* one call listed the comments after the other call had created its comment
ListFollowedCreate ==
  \E a, b \in Racers :
     a # b /\ racers[a].created # 0 /\ racers[a].created \in racers[b].listed

\* C18 (concurrent runs race on comment creation): after two interleaved
\* calls for the same pull request there are two bot comments with the
\* marker exactly when each call listed the comments before the other
\* created one and found no status comment; whenever one call's list
\* followed the other's create there is exactly one, and its body is the
\* body written last.
C18_RaceOnCreate ==
  RaceOver =>
     /\ Cardinality(BotStatusComments) \in {1, 2}
     /\ Cardinality(BotStatusComments) = 2 <=>
          (\A r \in Racers : racers[r].created # 0)
     /\ (\A r \in Racers : racers[r].created # 0) <=>
          (\A r \in Racers : racers[r].existing = 0 /\ ~ListFollowedCreate)
     /\ ListFollowedCreate =>
          /\ Cardinality(BotStatusComments) = 1
          /\ \A i \in BotStatusComments :
               comments[i].body = published[Len(published)].body

\* both calls listed before either created: the pull request holds two bot
\* comments with the marker, with different bodies
C18_Witness ==
  /\ RaceOver
  /\ Cardinality(BotStatusComments) = 2
  /\ \E i, j \in BotStatusComments : comments[i].body # comments[j].body
  /\ ~ListFollowedCreate

\* C19 (deployment-status updates are optional): in a run configured with
\* update_deployment: false no GitHub deployment record is created and no
\* deployment-status entry is published.
C19_NoDeploymentWhenDisabled ==
  ~inputs.update_deployment =>
     /\ githubDeploymentId = 0
     /\ deploymentRecords = <<>>
     /\ statusEntries = <<>>

\* the hidden metadata line of a comment body names the deployment d
CarriesMetadata(body, d) ==
  /\ Len(body) >= 1
  /\ Len(body[Len(body)]) >= 2
  /\ body[Len(body)][1] = "<!-- coolify-webhook:"
  /\ body[Len(body)][2] = d.deployment_uuid

\* C20 (webhook mode): a run with use_webhooks 'true' never polls: it makes
\* no Locator call after the initial one, begins no tick and never sleeps;
\* it fails only when the initial lookup or the initial comment call failed;
\* and when its deployment was found it ends with found=true, the status of
\* the initial lookup in the outputs, and an initial and a final comment
\* publish that both carry the deployment metadata.
C20_WebhookMode ==
  inputs.use_webhooks =>
     /\ pc \notin {"poll", "sleep", "finalStatus"}
     /\ locatorCalls <= 1 /\ ticks = 0 /\ sleeps = 0
     /\ failed => (result.threw \/ ~published[Len(published)].ok)
     /\ (pc = "done" /\ result.value # Null) =>
          /\ ~failed
          /\ outputs.found = "true"
          /\ outputs.status = result.value[1].status
          /\ Len(published) = 2 /\ published[1].ok
          /\ \A i \in 1..2 : CarriesMetadata(published[i].body, result.value[1])
          /\ Len(statusEntries) <= 1

\* a webhook-mode run that ended while its deployment was still queued or
\* in progress
C20_Witness ==
  /\ inputs.use_webhooks /\ pc = "done"
  /\ outputs.found = "true"
  /\ outputs.status \in {"queued", "in_progress"}
  /\ Len(statusEntries) = 1

\* -------------------------------------------- the formatters on their own
\* formatComment of the test script (test.ts)
TestStatusEmoji(status) ==
  IF status = "finished" THEN ":white_check_mark:"
  ELSE IF status = "failed" THEN ":x:"
  ELSE IF status = "in_progress" THEN ":arrows_counterclockwise:" ELSE ":hourglass:"

TestFormatComment(d) ==
  <<MarkerLine, BlankLine,
    <<TestStatusEmoji(d.status), " **Status:** ", d.status>>>>
  \o (IF d.fqdn # "" THEN << <<"**URL:** ", d.fqdn>> >> ELSE <<>>)
  \o << <<"**Logs:** ">> \o LogLink(d) >>

\* the deployment object of a webhook payload (CoolifyWebhookPayload) and the
\* mapping stored for it (DeploymentMapping)
WebhookDeployment(d) ==
  [uuid |-> d.deployment_uuid, commit |-> d.commit, status |-> d.status,
   fqdn |-> d.fqdn, created_at |-> d.created_at, finished_at |-> d.finished_at]
WebhookMapping(d, sha, isProduction, issueNumber) ==
  [deployment_uuid |-> d.deployment_uuid, commit_sha |-> sha,
   is_production |-> isProduction, issue_number |-> issueNumber]

\* formatComment of the webhook receiver (cloudflare-worker.ts)
WorkerStatusEmoji(status) ==
  IF status = "finished" THEN ":white_check_mark:"
  ELSE IF status = "failed" THEN ":x:"
  ELSE IF status = "in_progress" THEN ":arrows_counterclockwise:" ELSE ":hourglass:"

WorkerFormatComment(d, mapping) ==
  LET logLink == <<BaseUrl, "/deployments/", d.uuid>>
      head == <<MarkerLine, BlankLine,
                <<WorkerStatusEmoji(d.status), " **Status:** ",
                  d.status>>>>
      url == IF d.status = "finished" /\ d.fqdn # ""
             THEN <<BlankLine,
                    <<IF mapping.is_production THEN ":globe: **Production URL**"
                      ELSE ":link: **Preview URL**", ": ", d.fqdn>>>>
             ELSE <<>>
      logs == <<BlankLine, <<":clipboard: [View Build Logs]">> \o logLink>>
      retry == IF d.status = "failed"
               THEN <<BlankLine, <<"---">>, BlankLine,
                      <<"### :arrows_counterclockwise: Retry Deployment">>, BlankLine,
                      <<"[:arrows_counterclockwise: Retry Deployment]">> \o logLink
                         \o <<" | [:clipboard: View Logs]">> \o logLink>>
               ELSE <<>>
  IN head \o url \o logs \o retry

\* the deployments formatted: every status, with and without a URL, finished
\* or not
FormatDeployments ==
  {[RunDeployment("d1", st) EXCEPT !.fqdn = url, !.finished_at = fin] :
     st \in Statuses, url \in {"", "https://app.example.com"},
     fin \in {"", "2024-01-01T12:00:00Z"}}

\* the runs that format: of a pull request, of pushes to main, master and
\* another branch, and a manual one
PushMasterContext == [issue |-> 0, eventName |-> "push", ref |-> "refs/heads/master"]
FormatContexts == Contexts \cup {PushMasterContext}

\* how many bodies are formatted in a row
MaxFormats == 2

InitFormat ==
  /\ runner \in Runners
  /\ formatted = <<>>
  /\ IdleWorker
  /\ platform = Some(<<>>)
  /\ commitSha = "abc123"
  /\ ctx \in FormatContexts
  /\ tokenUser = ActionsBot
  /\ network = [githubFaults |-> FALSE, maxLatency |-> 0]
  /\ comments = <<>>
  /\ racers = <<>>
  /\ pc = "format"
  /\ IdleRun

\* one call of each formatter for the same deployment, as the action, the
\* test script and the webhook receiver make it
Format ==
  /\ pc = "format"
  /\ Len(formatted) < MaxFormats
  /\ \E d \in FormatDeployments, withInfo \in BOOLEAN :
       LET info == IF withInfo
                   THEN Some(DeploymentInfo(d, NewDeploymentId, commitSha,
                                            IsProduction(ctx), ctx.issue))
                   ELSE Null
       IN formatted' = Append(formatted,
            [runner |-> runner, deployment |-> d,
             isProduction |-> IsProduction(ctx), deploymentInfo |-> info,
             action |-> FormatComment(d, IsProduction(ctx), info),
             test |-> TestFormatComment(d),
             worker |-> WorkerFormatComment(WebhookDeployment(d),
                          WebhookMapping(d, commitSha, IsProduction(ctx), ctx.issue))])
  /\ UNCHANGED <<runner, racers>>
  /\ UNCHANGED workerVars
  /\ UNCHANGED <<envVars, result, githubVars, warnings, pc, deployment,
                 githubDeploymentId, loopVars, outputs, failed, countVars>>

\* the next run of the workflow is scheduled on another host
SwitchRunner ==
  /\ pc = "format"
  /\ Len(formatted) = 1
  /\ runner' \in Runners \ {runner}
  /\ UNCHANGED <<formatted, racers>>
  /\ UNCHANGED workerVars
  /\ UNCHANGED <<envVars, result, githubVars, warnings, pc, deployment,
                 githubDeploymentId, loopVars, outputs, failed, countVars>>

NextFormat == Format \/ SwitchRunner

SpecFormat == InitFormat /\ [][NextFormat]_vars

\* the symbol the spec gives a status
TableSymbol(status) ==
  CASE status = "finished" -> ":white_check_mark:"
    [] status = "failed" -> ":x:"
    [] status = "in_progress" -> ":arrows_counterclockwise:"
    [] OTHER -> ":hourglass:"

C22_MarkerRecognised ==
  /\ \A i \in 1..Len(formatted) : formatted[i].action[1] = MarkerLine
  /\ \A i \in 1..Len(published) : published[i].body[1] = MarkerLine
  /\ (ctx.issue # 0 /\ published # <<>> /\ published[Len(published)].ok) =>
        \E i \in 1..Len(comments) :
           /\ comments[i].body = published[Len(published)].body
           /\ IsExisting(comments[i])

\* whether a body holds the retry-guidance block
HasRetryBlock(body) ==
  \E k \in 1..Len(body) :
     body[k] = <<"### :arrows_counterclockwise: Retry Deployment">>

\* C23 (retry guidance only on failure): a body of the action's or of the
\* webhook receiver's formatter holds the retry-guidance block, with its
\* retry link to the deployment's page, exactly when the status is failed.
C23_RetryOnlyOnFailure ==
  \A i \in 1..Len(formatted) :
     LET e == formatted[i]
         link == <<"[:arrows_counterclockwise: Retry Deployment]",
                   BaseUrl, "/deployments/", e.deployment.deployment_uuid>>
         HasRetryLink(body) ==
           \E k \in 1..Len(body) :
              Len(body[k]) >= 4 /\ SubSeq(body[k], 1, 4) = link
     IN /\ HasRetryBlock(e.action) <=> e.deployment.status = "failed"
        /\ HasRetryBlock(e.worker) <=> e.deployment.status = "failed"
        /\ HasRetryLink(e.action) <=> e.deployment.status = "failed"
        /\ HasRetryLink(e.worker) <=> e.deployment.status = "failed"

\* a failed deployment with a URL was formatted, and so was one in progress
C23_Witness ==
  /\ Len(formatted) = 2
  /\ formatted[1].deployment.status = "failed" /\ formatted[1].deployment.fqdn # ""
  /\ HasRetryBlock(formatted[1].action)
  /\ formatted[2].deployment.status = "in_progress"
  /\ ~HasRetryBlock(formatted[2].action)

\* the prominent URL lines of a body: their labels
ProminentLabels(body) ==
  {body[k][1] : k \in {j \in 1..Len(body) :
      /\ Len(body[j]) = 3
      /\ body[j][1] \in {":globe: **Production URL**", ":link: **Preview URL**"}}}

\* C24 (prominent URL only on success): a body of the action's formatter
\* holds the prominent URL line exactly when the status is finished and the
\* deployment has a URL; the line is labelled Production URL when the run is
\* a push to refs/heads/main or refs/heads/master and Preview URL otherwise.
C24_ProminentUrlOnSuccess ==
  \A i \in 1..Len(formatted) :
     LET e == formatted[i]
         shown == e.deployment.status = "finished" /\ e.deployment.fqdn # ""
         pushToMain == /\ ctx.eventName = "push"
                       /\ ctx.ref \in {"refs/heads/main", "refs/heads/master"}
     IN /\ ProminentLabels(e.action) # {} <=> shown
        /\ shown =>
             ProminentLabels(e.action) =
               {IF pushToMain THEN ":globe: **Production URL**"
                ELSE ":link: **Preview URL**"}
        /\ shown =>
             \E k \in 1..Len(e.action) :
                e.action[k] = <<CHOOSE l \in ProminentLabels(e.action) : TRUE,
                                ": ", e.deployment.fqdn>>

\* a finished deployment with a URL was formatted in a push to master, and
\* a finished one without a URL
C24_Witness ==
  /\ ctx = PushMasterContext
  /\ Len(formatted) = 2
  /\ formatted[1].deployment.status = "finished"
  /\ formatted[1].deployment.fqdn # ""
  /\ ProminentLabels(formatted[1].action) = {":globe: **Production URL**"}
  /\ formatted[2].deployment.status = "finished"
  /\ formatted[2].deployment.fqdn = ""

\* C25 (deterministic formatting): two calls of the action's formatter with
\* the same deployment, production flag and metadata return the same body,
\* whichever runs make them.
C25_SameInputsSameBody ==
  \A i, j \in 1..Len(formatted) :
     (/\ formatted[i].deployment = formatted[j].deployment
      /\ formatted[i].isProduction = formatted[j].isProduction
      /\ formatted[i].deploymentInfo = formatted[j].deploymentInfo) =>
        formatted[i].action = formatted[j].action

\* C26 (run outputs): a run that found a deployment and completed has set
\* found to true, status to the status of the last Locator result, url to
\* its URL or the empty string, log_link to the base URL followed by
\* /deployments/ and the tracked deployment's identifier, and uuid to that
\* identifier.
C26_RunOutputs ==
  Completed =>
     /\ outputs.found = "true"
     /\ outputs.status = result.value[1].status
     /\ outputs.url = result.value[1].fqdn
     /\ outputs.log_link = <<BaseUrl, "/deployments/", deployment[1].deployment_uuid>>
     /\ "uuid" \in DOMAIN outputs
     /\ outputs["uuid"] = deployment[1].deployment_uuid

\* C27 (frame of a pull-request publish): a publish on a pull request
\* changes at most one comment: it leaves the comments as they are, or
\* appends one comment of the bot, or replaces the body of one comment that
\* the bot's account wrote and that begins with the marker; every other
\* comment keeps its place, author and body, and none is removed.
C27_PublishFrame ==
  [][(pc = "publish" /\ ctx.issue # 0) =>
       LET n == Len(comments)
           body == published'[Len(published')].body
       IN /\ commitComments' = commitComments
          /\ \/ comments' = comments
             \/ /\ Len(comments') = n + 1
                /\ SubSeq(comments', 1, n) = comments
                /\ comments'[n + 1].user = tokenUser
                /\ comments'[n + 1].body = body
             \/ /\ Len(comments') = n
                /\ \E i \in 1..n :
                     /\ comments[i].user.login = tokenUser.login
                     /\ comments[i].body[1] = MarkerLine
                     /\ comments'[i] = [comments[i] EXCEPT !.body = body]
                     /\ \A j \in 1..n : j # i => comments'[j] = comments[j]]_vars

\* the publisher was last called for the deployment and status that the
\* last Locator call returned, with the body formatted for it, and when that
\* call succeeded the channel shows the body
LatestIsPublished ==
  /\ ~result.threw /\ result.value # Null
  /\ lastStatus = result.value[1].status
  /\ published # <<>>
  /\ LET last == published[Len(published)]
     IN /\ last.uuid = result.value[1].deployment_uuid
        /\ last.status = result.value[1].status
        /\ last.body = FormatComment(result.value[1], IsProduction(ctx), Null)
        /\ (last.ok /\ ctx.issue # 0) =>
              \E i \in 1..Len(comments) : comments[i].body = last.body
        /\ (last.ok /\ ctx.issue = 0 /\ ctx.eventName = "push") =>
              commitComments[Len(commitComments)] = last.body

CallBound(timeoutMs, pollIntervalMs) ==
  LET usable == IF timeoutMs = NaN THEN ParseInt(DefaultTimeout) ELSE timeoutMs
  IN 2 + (usable + pollIntervalMs - 1) \div pollIntervalMs

\* C29: a session that has not seen a terminal status has made no more
\* Locator calls than its timeout and poll interval allow, also when the
\* timeout input is not a valid number
C29_LocatorCallsBounded ==
  (observed \cap {"finished", "failed"} = {}) =>
     locatorCalls <= CallBound(inputs.timeout, inputs.poll_interval)

\* C30: a tick that observes finished or failed ends the session as terminal
\* and not as timed out, also when the elapsed time has reached the timeout;
\* a tick ends the session as timed out only on a non-terminal status with
\* the timeout reached; and the timed-out mark is set in a tick, right after
\* its Locator call, never by a sleep or any other step
C30_TerminalBeforeTimeout ==
  [][ /\ (ticks' = ticks + 1 /\ pc' # "aborted") =>
           LET status == result'.value[1].status
           IN /\ IsTerminal(status) =>
                   /\ pc' = "finalStatus"
                   /\ timedOut' = FALSE
                   /\ deployment'[1].status = status
              /\ timedOut' =>
                   /\ ~IsTerminal(status)
                   /\ pc' = "finalStatus"
                   /\ deployment'[1].status = status
                   /\ now' - startTime >= inputs.timeout
              /\ (~IsTerminal(status) /\ now' - startTime >= inputs.timeout) =>
                   timedOut'
      /\ (timedOut' # timedOut) => locatorCalls' = locatorCalls + 1
      /\ (sleeps' = sleeps + 1) =>
           (pc' = "poll" /\ timedOut' = timedOut /\ locatorCalls' = locatorCalls)
    ]_vars

\* C30 witness: a session that slept, then saw a terminal status in a tick at
\* which the timeout had already been reached, and ended as terminal
C30_Witness ==
  /\ pc = "finalStatus"
  /\ sleeps > 0
  /\ inputs.timeout > 0
  /\ now - startTime >= inputs.timeout
  /\ IsTerminal(deployment[1].status)
  /\ ~timedOut

\* C31: at the end of a run that polled, the last deployment-status entry is
\* success only with the status output finished, failure only with the status
\* output failed, and a run that timed out has not recorded failure
C31_FinalEntryAgrees ==
  (pc = "done" /\ ticks > 0 /\ statusEntries # <<>>) =>
     LET last == statusEntries[Len(statusEntries)].state
     IN /\ last = "success" => outputs.status = "finished"
        /\ last = "failure" => outputs.status = "failed"
        /\ timedOut => last # "failure"

\* the publisher calls of the run that succeeded, by their position
SuccessfulPublishes == {i \in 1..Len(published) : published[i].ok}

\* C32: inside the poll loop, once a tick has run, lastStatus is the status
\* of the most recent publisher call that succeeded
C32_LastStatusIsPublished ==
  (pc \in {"poll", "sleep"} /\ ticks > 0 /\ SuccessfulPublishes # {}) =>
     LET latest == CHOOSE i \in SuccessfulPublishes :
                      \A j \in SuccessfulPublishes : j <= i
     IN lastStatus = published[latest].status

\* C33: the deployment a run tracks is the one its initial lookup returned and
\* never another; every comment body published, every deployment-status
\* entry and the log_link output name that deployment
C33_OneTrackedDeployment ==
  [][ /\ deployment # Null =>
           /\ deployment' # Null
           /\ deployment'[1].deployment_uuid = deployment[1].deployment_uuid
      /\ deployment' # Null =>
           LET uuid == deployment'[1].deployment_uuid
           IN /\ \A i \in 1..Len(published') :
                   /\ published'[i].uuid = uuid
                   /\ \E l \in 1..Len(published'[i].body) :
                        published'[i].body[l] =
                          <<":clipboard: [View Build Logs]">> \o LogLink(deployment'[1])
              /\ \A i \in 1..Len(statusEntries') :
                   statusEntries'[i].log_url = LogLink(deployment'[1])
              /\ outputs'.found = "true" => outputs'.log_link = LogLink(deployment'[1])
      /\ deployment' = Null => (published' = <<>> /\ statusEntries' = <<>>)
    ]_vars

\* C33 witness: a run that published for its deployment, polled, and aborted
\* on a tick at which a newer deployment of the same commit was returned
C33_Witness ==
  /\ pc = "aborted"
  /\ ticks > 1
  /\ result.value # Null
  /\ result.value[1].commit = commitSha
  /\ result.value[1].deployment_uuid # deployment[1].deployment_uuid
  /\ Len(published) >= 2
  /\ statusEntries # <<>>

\* C34: the tick that aborts the run during polling sets no output and
\* publishes nothing: the comments, the deployment-status entries and the
\* publisher's history stay as they were, with no final status entry, and on
\* a pull request the comment still shows the last status published, a
\* non-terminal one; and nothing is published after the abort
C34_AbortPublishesNothing ==
  [][ /\ (ticks' = ticks + 1 /\ failed') =>
           /\ pc' = "aborted"
           /\ outputs' = NoOutputs
           /\ UNCHANGED <<comments, commitComments, statusEntries, published,
                          outputs, warnings>>
           /\ Len(statusEntries') <= 1
           /\ \A i \in 1..Len(statusEntries') :
                statusEntries'[i].state = "in_progress"
           /\ LET latest == CHOOSE i \in SuccessfulPublishes :
                               \A j \in SuccessfulPublishes : j <= i
              IN /\ SuccessfulPublishes # {}
                 /\ ~IsTerminal(published[latest].status)
                 /\ ctx.issue # 0 =>
                      comments'[Len(comments')].body = published[latest].body
      /\ (failed /\ ticks > 0) =>
           UNCHANGED <<comments, commitComments, statusEntries, published,
                       outputs, warnings, pc>>
    ]_vars

\* C34 witness: a run on a pull request that published in the loop, lost its
\* deployment on a later tick and stands aborted with its outputs unset
C34_Witness ==
  /\ pc = "aborted"
  /\ failed
  /\ ticks > 1
  /\ ctx.issue # 0
  /\ Len(published) >= 2
  /\ outputs = NoOutputs
  /\ lastStatus = "in_progress"

\* C35: a failing creation of the GitHub deployment record, and a failing
\* deployment-status update, leave the run unmarked and let it go on to the
\* next step (the initial comment, the poll loop or the outputs), publishing
\* no status entry for the failed call; a run without a deployment record
\* never publishes a deployment-status entry
C35_RecordFailuresNonFatal ==
  [][ /\ pc = "createDeployment" =>
           /\ pc' = "initialComment"
           /\ failed' = FALSE
           /\ githubDeploymentId' = 0 =>
                (warnings' = warnings + 1 /\ deploymentRecords' = deploymentRecords)
      /\ pc = "initialStatus" /\ pc' # pc =>
           /\ failed' = FALSE
           /\ pc' = IF SkipsPolling(deployment[1].status, inputs.use_webhooks)
                    THEN "finalize" ELSE "poll"
           /\ warnings' # warnings => statusEntries' = statusEntries
      /\ pc = "finalStatus" =>
           /\ failed' = FALSE
           /\ pc' = "finalize"
           /\ warnings' # warnings => statusEntries' = statusEntries
      /\ pc = "finalize" =>
           (pc' = "done" /\ failed' = FALSE /\ outputs'.found = "true")
      /\ githubDeploymentId' = 0 => statusEntries' = <<>>
    ]_vars

\* C35 witness: a run whose deployment record could not be created, that
\* published its comment, polled, set its outputs and ended unmarked, without
\* any deployment-status entry
C35_Witness ==
  /\ pc = "done"
  /\ ~failed
  /\ githubDeploymentId = 0
  /\ deploymentRecords = <<>>
  /\ warnings > 0
  /\ ticks > 0
  /\ published # <<>>
  /\ outputs.found = "true"
  /\ statusEntries = <<>>

\* C36: on a pull request, once the initial comment has been published, the
\* run's status comment carries the hidden metadata block naming the tracked
\* deployment, at every later point of the run
C36_MetadataStays ==
  (/\ ctx.issue # 0
   /\ published # <<>>
   /\ published[1].ok
   /\ FindExisting(comments) # 0) =>
     CarriesMetadata(comments[FindExisting(comments)].body, deployment[1])

\* ----------------------------------------------------- the webhook receiver
\* cloudflare-worker.ts: the request methods met, and a request body that is
\* not JSON (Null) or a payload about one deployment
Methods == {"OPTIONS", "POST", "GET", "DELETE"}
WebhookType(status) ==
  IF status = "finished" THEN "deployment.finished"
  ELSE IF status = "failed" THEN "deployment.failed" ELSE "deployment.started"
WebhookPayload(d) ==
  [type |-> WebhookType(d.status), deployment |-> WebhookDeployment(d),
   application |-> [uuid |-> "app-1", name |-> "app"]]
WebhookBodies ==
  {Null} \cup {Some(WebhookPayload(d)) :
                 d \in {RunDeployment("d1", "finished"), RunDeployment("d1", "failed"),
                        RunDeployment("d2", "in_progress")}}
Requests == [method : Methods, body : WebhookBodies]

\* the mappings that may be stored: of a pull request with and without a
\* known comment, and of a push; comment_id and issue_number 0 when absent
StoredMappings ==
  {[deployment_uuid |-> "d1", github_repo |-> "owner/repo", github_owner |-> "owner",
    comment_id |-> 2, issue_number |-> 7, commit_sha |-> "abc123",
    is_production |-> FALSE],
   [deployment_uuid |-> "d1", github_repo |-> "owner/repo", github_owner |-> "owner",
    comment_id |-> 0, issue_number |-> 7, commit_sha |-> "abc123",
    is_production |-> FALSE],
   [deployment_uuid |-> "d1", github_repo |-> "owner/repo", github_owner |-> "owner",
    comment_id |-> 0, issue_number |-> 0, commit_sha |-> "abc123",
    is_production |-> TRUE]}

\* env.DEPLOYMENT_MAPPINGS.get(`deployment:${uuid}`): Null or Some(mapping)
KvGet(store, uuid) ==
  IF \E m \in store : m.deployment_uuid = uuid
  THEN Some(CHOOSE m \in store : m.deployment_uuid = uuid)
  ELSE Null

\* updateGitHubComment: the one GitHub call it makes
UpdateGitHubComment(payload, mapping) ==
  [call |-> IF mapping.issue_number # 0 /\ mapping.comment_id # 0
            THEN "issues.updateComment"
            ELSE IF mapping.issue_number # 0 THEN "issues.createComment"
            ELSE "repos.createCommitComment",
   comment_id |-> mapping.comment_id,
   issue_number |-> mapping.issue_number,
   commit_sha |-> mapping.commit_sha,
   body |-> WorkerFormatComment(payload.deployment, mapping)]

\* fetch, line 50: request.method !== 'POST' is answered 405
MethodAllowedAny(method) == TRUE
MethodAllowed(method) == method = "POST"

\* fetch, lines 39-86: the answer to one request, with whether the body was
\* read, the keys looked up in the store and the GitHub calls made; apiOk
\* tells whether the GitHub call succeeds
HandleRequest(request, store, apiOk) ==
  LET answer(status, readBody, kvGets, githubCalls) ==
        [status |-> status, readBody |-> readBody, kvGets |-> kvGets,
         githubCalls |-> githubCalls]
  IN IF request.method = "OPTIONS" THEN answer(200, FALSE, <<>>, <<>>)
     ELSE IF ~MethodAllowed(request.method) THEN answer(405, FALSE, <<>>, <<>>)
     ELSE IF request.body = Null THEN answer(500, TRUE, <<>>, <<>>)
     ELSE LET payload == request.body[1]
              found == KvGet(store, payload.deployment.uuid)
          IN IF found = Null
             THEN answer(404, TRUE, <<payload.deployment.uuid>>, <<>>)
             ELSE answer(IF apiOk THEN 200 ELSE 500, TRUE,
                         <<payload.deployment.uuid>>,
                         <<UpdateGitHubComment(payload, found[1])>>)

\* number of requests followed
MaxRequests == 2

\* a deployed receiver: the store holds no mapping or one
InitWorker ==
  /\ runner = DefaultRunner
  /\ formatted = <<>>
  /\ kvStore \in {{}} \cup {{m} : m \in StoredMappings}
  /\ handled = <<>>
  /\ platform = Some(<<>>)
  /\ commitSha = "abc123"
  /\ ctx = PrContext
  /\ tokenUser = TokenOwner
  /\ network = [githubFaults |-> TRUE, maxLatency |-> 0]
  /\ comments = <<>>
  /\ racers = <<>>
  /\ pc = "serve"
  /\ IdleRun

\* fetch: one request answered
Fetch ==
  /\ pc = "serve"
  /\ Len(handled) < MaxRequests
  /\ \E request \in Requests, apiOk \in ApiOutcomes :
       handled' = Append(handled,
         [request |-> request, response |-> HandleRequest(request, kvStore, apiOk)])
  /\ UNCHANGED <<kvStore, racers, runner, formatted>>
  /\ UNCHANGED <<envVars, result, githubVars, warnings, pc, deployment,
                 githubDeploymentId, loopVars, outputs, failed, countVars>>

NextWorker == Fetch

SpecWorker == InitWorker /\ [][NextWorker]_vars

\* C37: a POST whose payload names a deployment without a stored mapping is
\* answered 404 with no GitHub call; a request of any method other than POST
\* and OPTIONS is answered 405 without its payload being read or the mapping
\* store being looked up, and with no GitHub call; no request changes the store
C37_WorkerRejects ==
  [][ /\ kvStore' = kvStore
      /\ \A i \in 1..Len(handled') :
           LET request == handled'[i].request
               response == handled'[i].response
           IN /\ (/\ request.method = "POST"
                  /\ request.body # Null
                  /\ KvGet(kvStore, request.body[1].deployment.uuid) = Null) =>
                    (response.status = 404 /\ response.githubCalls = <<>>)
              /\ request.method \notin {"POST", "OPTIONS"} =>
                    /\ response.status = 405
                    /\ ~response.readBody
                    /\ response.kvGets = <<>>
                    /\ response.githubCalls = <<>>
    ]_vars

\* C37 witness: with a mapping stored for another deployment, a POST about an
\* unmapped deployment and a DELETE carrying a payload have both been answered
C37_Witness ==
  /\ kvStore # {}
  /\ Len(handled) = 2
  /\ handled[1].request.method = "POST"
  /\ handled[1].request.body # Null
  /\ handled[1].response.status = 404
  /\ handled[2].request.method = "DELETE"
  /\ handled[2].request.body # Null
  /\ handled[2].response.status = 405

====
